---- MODULE Spec2Model ----
(***************************************************************************)
(* Model of pycozo.client: the Client class (constructor, close, run,      *)
(* export_relations, import_relations, backup, restore,                    *)
(* import_from_backup) and QueryException.                                 *)
(*                                                                         *)
(* The two collaborators (the native binding cozo_embedded.CozoDbPy and    *)
(* the HTTP server reached through `requests`) are external: every call    *)
(* the Client makes to them is appended to `calls`, and the response a     *)
(* collaborator gives to a call is an input of the operation.              *)
(***************************************************************************)
EXTENDS Integers, Sequences, FiniteSets, TLC

(* ---------------------------------------------------------------------- *)
(* Bounds                                                                  *)
(* ---------------------------------------------------------------------- *)

\* Operations invoked on one constructed Client.
MaxOps == 2

(* ---------------------------------------------------------------------- *)
(* Python values                                                           *)
(* ---------------------------------------------------------------------- *)

\* An instance attribute that no assignment has created (reading it raises
\* AttributeError).
Unset == "<unset>"

\* Python's None.
None == "None"

\* The object CozoDbPy(...) returns.
Handle == "CozoDbPy"

\* The pandas module object.
PandasModule == "pandas"

\* A key a Python dict does not have (dict.get returns None for it).
Absent == "<absent>"

Engines == {"http", "mem"}

Paths == {"", "/bk"}

\* The `path` argument of the constructor.
CtorPaths == {""}

Hosts == {"http://h"}

Auths == {"tok1", "tok2"}

Scripts == {"?[a] := a = 1"}

\* The `params` argument of run: None, the empty dict, a non-empty dict.
ParamsArgs == {None, "{}", "{'a': 1}"}

\* The `relations` argument: a list of relation names.
RelationLists == {<<"r1">>, <<"r 1", "r2">>}

\* The `data` argument of import_relations.
DataArgs == {"{'r1': rows}"}

\* The `options` argument of the constructor: None, a dict, or an object
\* that carries its entries as attributes.  `host`/`auth` are Absent when the
\* options lack that entry.
OptionsArgs ==
    {[kind |-> "none", host |-> Absent, auth |-> Absent]}
    \cup [kind : {"dict", "object"}, host : Hosts \cup {Absent}, auth : Auths \cup {Absent}]

\* Responses of a collaborator: JSON objects with an `ok` flag.
OkResponses ==
    {[ok |-> TRUE, headers |-> <<"a">>, rows |-> <<<<1>>>>, data |-> "{'r1': rows}",
      message |-> Absent, display |-> Absent]}

FailResponses ==
    [ok : {FALSE}, headers : {Absent}, rows : {Absent}, data : {Absent},
     message : {"m1"}, display : {Absent, "d1"}]

Responses == OkResponses \cup FailResponses

\* Truth value of a Python object used as a condition.
Truthy(v) == v \notin {None, "", "{}", Absent}

\* Python `a or b`.
Or(a, b) == IF Truthy(a) THEN a ELSE b

(* ---------------------------------------------------------------------- *)
(* State                                                                   *)
(* ---------------------------------------------------------------------- *)

VARIABLES
    phase,      \* "new": no constructor call yet; "live": a Client exists;
                \* "failed": the constructor raised
    ctor,       \* the constructor's arguments and environment, and its outcome
    embedded,   \* self.embedded
    host,       \* self.host
    auth,       \* self.auth
    pandas,     \* self.pandas
    warned,     \* the missing-pandas message was printed
    calls,      \* every call made to a collaborator, in order
    nops,       \* operations invoked on the Client so far
    last        \* the last operation: name, response offered, outcome, calls made

vars == <<phase, ctor, embedded, host, auth, pandas, warned, calls, nops, last>>

(* ---------------------------------------------------------------------- *)
(* Conversions                                                             *)
(* ---------------------------------------------------------------------- *)

\* json.dumps(x): the JSON text of x.
JsonDumps(x) == <<"json", x>>

\* json.loads(s) / Response.json(): the value a JSON text denotes.
JsonLoads(s) == s[2]

\* urllib.parse.quote_plus on a relation name.
QuotePlus(s) ==
    CASE s = "r 1" -> "r+1"
      [] OTHER -> s

\* ','.join(map(quote_plus, relations)): the quoted names with a ','
\* between neighbours.
RECURSIVE CommaJoinQuoted(_)
CommaJoinQuoted(relations) ==
    IF Len(relations) = 0 THEN <<>>
    ELSE IF Len(relations) = 1 THEN <<QuotePlus(Head(relations))>>
    ELSE <<QuotePlus(Head(relations)), ",">> \o CommaJoinQuoted(Tail(relations))

\* The dict literal {}.
EmptyDict == <<"dict", Absent, Absent>>

\* The serializable content of an options dict.
DictOf(options) == <<"dict", options.host, options.auth>>

\* `options or {}` as passed to json.dumps by the constructor.
OptionsOrEmpty(options) ==
    IF options.kind = "none" THEN EmptyDict
    ELSE IF options.kind = "dict" /\ options.host = Absent /\ options.auth = Absent
    THEN EmptyDict
    ELSE DictOf(options)

(* ---------------------------------------------------------------------- *)
(* Outcomes and collaborator calls                                         *)
(* ---------------------------------------------------------------------- *)

Return(v) == [kind |-> "return", val |-> v]

Raise(type, arg) == [kind |-> "raise", val |-> <<type, arg>>]

NoneValue == <<"None">>

NativeCall(entry, args) ==
    [via |-> "native", op |-> entry, target |-> <<>>, auth |-> Absent, body |-> args]

HttpCall(method, url, headers, json) ==
    [via |-> "http", op |-> method, target |-> url, auth |-> headers, body |-> json]

\* What an operation did: the collaborator calls it made and how it ended.
Did(made, outcome) == [made |-> made, outcome |-> outcome]

NoLast == [op |-> "none", resp |-> Absent, outcome |-> Return(NoneValue), ncalls |-> 0]

(* ---------------------------------------------------------------------- *)
(* Client.__init__                                                         *)
(* ---------------------------------------------------------------------- *)

\* Reading attribute `name` of the options argument (options.host /
\* options.auth): only an object that has the attribute yields a value; None
\* and a plain dict have no such attribute.
HasAttr(options, name) ==
    /\ options.kind = "object"
    /\ (IF name = "host" THEN options.host ELSE options.auth) # Absent

\* The engine part of the constructor.
InitEngine(engine, path, options, nativeOk) ==
    IF engine = "http"
    THEN IF ~HasAttr(options, "host")
         THEN [embedded |-> Unset, host |-> Unset, auth |-> Unset, made |-> <<>>,
               outcome |-> Raise("AttributeError", "host")]
         ELSE IF ~HasAttr(options, "auth")
         THEN [embedded |-> Unset, host |-> options.host, auth |-> Unset, made |-> <<>>,
               outcome |-> Raise("AttributeError", "auth")]
         ELSE [embedded |-> Unset, host |-> options.host, auth |-> options.auth,
               made |-> <<>>, outcome |-> Return(NoneValue)]
    ELSE IF options.kind = "object"
         THEN [embedded |-> Unset, host |-> Unset, auth |-> Unset, made |-> <<>>,
               outcome |-> Raise("TypeError", "not JSON serializable")]
         ELSE LET call == NativeCall("CozoDbPy",
                                     <<engine, path, JsonDumps(OptionsOrEmpty(options))>>)
              IN IF nativeOk
                 THEN [embedded |-> Handle, host |-> Unset, auth |-> Unset,
                       made |-> <<call>>, outcome |-> Return(NoneValue)]
                 ELSE [embedded |-> Unset, host |-> Unset, auth |-> Unset,
                       made |-> <<call>>, outcome |-> Raise("Exception", "native")]

\* The dataframe part of the constructor: self.pandas after `import pandas`
\* was tried (or not).
InitPandas(dataframe, pandasInstalled) ==
    IF dataframe /\ pandasInstalled THEN PandasModule ELSE None

ClientInit(engine, path, options, dataframe, pandasInstalled, nativeOk) ==
    /\ phase = "new"
    /\ LET e == InitEngine(engine, path, options, nativeOk)
           ok == e.outcome.kind = "return"
       IN /\ phase' = IF ok THEN "live" ELSE "failed"
          /\ ctor' = [engine |-> engine, path |-> path, options |-> options,
                      dataframe |-> dataframe, pandasInstalled |-> pandasInstalled,
                      nativeOk |-> nativeOk, outcome |-> e.outcome]
          /\ embedded' = e.embedded
          /\ host' = e.host
          /\ auth' = e.auth
          /\ pandas' = IF ok THEN InitPandas(dataframe, pandasInstalled) ELSE None
          /\ warned' = (ok /\ dataframe /\ ~pandasInstalled)
          /\ calls' = calls \o e.made
    /\ UNCHANGED <<nops, last>>

Construct ==
    \E engine \in Engines, path \in CtorPaths, options \in OptionsArgs,
       dataframe \in BOOLEAN, pandasInstalled \in BOOLEAN, nativeOk \in BOOLEAN :
        /\ (engine = "http" => nativeOk)
        /\ ClientInit(engine, path, options, dataframe, pandasInstalled, nativeOk)

(* ---------------------------------------------------------------------- *)
(* Dispatch helpers                                                        *)
(* ---------------------------------------------------------------------- *)

\* Reading self.embedded when the constructor never assigned it.
NoEmbeddedAttr == Did(<<>>, Raise("AttributeError", "embedded"))

\* `if res['ok'] ... else raise RuntimeError(res['message'])`, returning
\* okVal on success.
CheckOk(res, okVal) ==
    IF res.ok THEN Return(okVal) ELSE Raise("RuntimeError", res.message)

\* One call of a native entry point; the binding returns JSON text, which
\* json.loads parses.
EmbeddedCall(entry, args, res, okVal) ==
    LET r == JsonDumps(res)
    IN Did(<<NativeCall(entry, args)>>, CheckOk(JsonLoads(r), okVal))

\* self._headers()
Headers == auth

\* One HTTP request built from self.host and self._headers(); r.json() parses
\* the reply.
RemoteCall(method, path, json, res, okVal) ==
    IF host = Unset THEN Did(<<>>, Raise("AttributeError", "host"))
    ELSE IF auth = Unset THEN Did(<<>>, Raise("AttributeError", "auth"))
    ELSE LET r == JsonDumps(res)
         IN Did(<<HttpCall(method, <<host>> \o path, Headers, json)>>,
                CheckOk(JsonLoads(r), okVal))

\* `if self.embedded: <emb> else: <rem>`
IfEmbedded(emb, rem) ==
    IF embedded = Unset THEN NoEmbeddedAttr
    ELSE IF Truthy(embedded) THEN emb
    ELSE rem

\* The effect every operation has on the model's bookkeeping: the Client's
\* fields are untouched, the calls are logged, the outcome is recorded.
Finish(op, res, did) ==
    /\ calls' = calls \o did.made
    /\ last' = [op |-> op, resp |-> res, outcome |-> did.outcome,
                ncalls |-> Len(did.made)]
    /\ nops' = nops + 1
    /\ UNCHANGED <<phase, ctor, embedded, host, auth, pandas, warned>>

CanCall == phase = "live" /\ nops < MaxOps

(* ---------------------------------------------------------------------- *)
(* Client.close                                                            *)
(* ---------------------------------------------------------------------- *)

CloseDid ==
    IF embedded = Unset THEN NoEmbeddedAttr
    ELSE IF Truthy(embedded) THEN Did(<<NativeCall("close", <<>>)>>, Return(NoneValue))
    ELSE Did(<<>>, Return(NoneValue))

close ==
    /\ CanCall
    /\ Finish("close", Absent, CloseDid)

(* ---------------------------------------------------------------------- *)
(* Client.run and QueryException                                           *)
(* ---------------------------------------------------------------------- *)

\* QueryException.__str__
QueryExceptionStr(resp) == Or(resp.message, <<"str", resp>>)

\* QueryException.__repr__
QueryExceptionRepr(resp) == Or(resp.display, Or(resp.message, <<"str", resp>>))

\* _format_return with the dataframe branch lost: a successful response is
\* always handed back raw.
FormatReturn_NoDataFrame(res) ==
    IF ~res.ok THEN Raise("QueryException", res)
    ELSE Return(<<"dict", res>>)

\* Client._format_return
FormatReturn(res) ==
    IF ~res.ok THEN Raise("QueryException", res)
    ELSE IF Truthy(pandas) THEN Return(<<"DataFrame", res.headers, res.rows>>)
    ELSE Return(<<"dict", res>>)

\* `params or {}`
ParamsOrEmpty(params) == Or(params, "{}")

\* Client._client_request
ClientRequest(script, params, res) ==
    IF host = Unset THEN Did(<<>>, Raise("AttributeError", "host"))
    ELSE IF auth = Unset THEN Did(<<>>, Raise("AttributeError", "auth"))
    ELSE LET r == JsonDumps(res)
         IN Did(<<HttpCall("POST", <<host, "/text-query">>, Headers,
                           <<script, ParamsOrEmpty(params)>>)>>,
                FormatReturn(JsonLoads(r)))

\* Client._embedded_request
EmbeddedRequest(script, params, res) ==
    LET params_str == JsonDumps(ParamsOrEmpty(params))
        r == JsonDumps(res)
    IN Did(<<NativeCall("run_query", <<script, params_str>>)>>,
           FormatReturn(JsonLoads(r)))

RunDid(script, params, res) ==
    IF embedded = Unset THEN NoEmbeddedAttr
    ELSE IF embedded = None THEN ClientRequest(script, params, res)
    ELSE EmbeddedRequest(script, params, res)

run ==
    /\ CanCall
    /\ \E script \in Scripts, params \in ParamsArgs, res \in Responses :
        Finish("run", res, RunDid(script, params, res))

(* ---------------------------------------------------------------------- *)
(* Client.export_relations / import_relations                              *)
(* ---------------------------------------------------------------------- *)

ExportDid(relations, res) ==
    IfEmbedded(
        EmbeddedCall("export_relations", <<JsonDumps(<<"relations", relations>>)>>,
                     res, <<"data", res.data>>),
        RemoteCall("GET", <<"/export/">> \o CommaJoinQuoted(relations), Absent,
                   res, <<"data", res.data>>))

export_relations ==
    /\ CanCall
    /\ \E relations \in RelationLists, res \in Responses :
        Finish("export_relations", res, ExportDid(relations, res))

ImportDid(data, res) ==
    IfEmbedded(
        EmbeddedCall("import_relations", <<JsonDumps(data)>>, res, NoneValue),
        RemoteCall("PUT", <<"/import">>, data, res, NoneValue))

import_relations ==
    /\ CanCall
    /\ \E data \in DataArgs, res \in Responses :
        Finish("import_relations", res, ImportDid(data, res))

(* ---------------------------------------------------------------------- *)
(* Client.backup / restore / import_from_backup                            *)
(* ---------------------------------------------------------------------- *)

BackupDid(path, res) ==
    IfEmbedded(
        EmbeddedCall("backup", <<path>>, res, NoneValue),
        RemoteCall("POST", <<"/backup/">>, <<"path", path>>, res, NoneValue))

backup ==
    /\ CanCall
    /\ \E path \in Paths, res \in Responses :
        Finish("backup", res, BackupDid(path, res))

RestoreDid(path, res) ==
    IfEmbedded(
        EmbeddedCall("restore", <<path>>, res, NoneValue),
        Did(<<>>, Raise("RuntimeError", "Remote databases cannot be restored remotely")))

restore ==
    /\ CanCall
    /\ \E path \in Paths, res \in Responses :
        Finish("restore", res, RestoreDid(path, res))

ImportFromBackupDid(path, relations, res) ==
    IfEmbedded(
        EmbeddedCall("import_from_backup",
                     <<JsonDumps(<<"path", path, "relations", relations>>)>>,
                     res, NoneValue),
        RemoteCall("POST", <<"/import-from-backup">>,
                   <<"path", path, "relations", relations>>, res, NoneValue))

import_from_backup ==
    /\ CanCall
    /\ \E path \in Paths, relations \in RelationLists, res \in Responses :
        Finish("import_from_backup", res, ImportFromBackupDid(path, relations, res))

(* ---------------------------------------------------------------------- *)
(* Specification                                                           *)
(* ---------------------------------------------------------------------- *)

Init ==
    /\ phase = "new"
    /\ ctor = [engine |-> "none", path |-> "", options |-> [kind |-> "none",
               host |-> Absent, auth |-> Absent], dataframe |-> FALSE,
               pandasInstalled |-> FALSE, nativeOk |-> FALSE,
               outcome |-> Return(NoneValue)]
    /\ embedded = Unset
    /\ host = Unset
    /\ auth = Unset
    /\ pandas = Unset
    /\ warned = FALSE
    /\ calls = <<>>
    /\ nops = 0
    /\ last = NoLast

Next ==
    \/ Construct
    \/ close
    \/ run
    \/ export_relations
    \/ import_relations
    \/ backup
    \/ restore
    \/ import_from_backup

Spec == Init /\ [][Next]_vars

(* ---------------------------------------------------------------------- *)
(* Properties                                                              *)
(* ---------------------------------------------------------------------- *)

\* A Client constructed with engine 'http'.
IsRemote == phase = "live" /\ ctor.engine = "http"

\* A Client constructed with any other engine.
IsEmbedded == phase = "live" /\ ctor.engine # "http"

\* The options argument carries both a host and an auth entry.
HasHostAndAuth(options) ==
    options.kind # "none" /\ options.host # Absent /\ options.auth # Absent

RECURSIVE CountCalls(_, _, _)
CountCalls(log, via, op) ==
    IF Len(log) = 0 THEN 0
    ELSE (IF Head(log).via = via /\ Head(log).op = op THEN 1 ELSE 0)
         + CountCalls(Tail(log), via, op)

\* The method and path of the wire contract for each remote operation.
WireMethod(op) ==
    CASE op = "run" -> "POST"
      [] op = "export_relations" -> "GET"
      [] op = "import_relations" -> "PUT"
      [] op = "backup" -> "POST"
      [] op = "import_from_backup" -> "POST"

WirePath(op) ==
    CASE op = "run" -> "/text-query"
      [] op = "export_relations" -> "/export/"
      [] op = "import_relations" -> "/import"
      [] op = "backup" -> "/backup/"
      [] op = "import_from_backup" -> "/import-from-backup"

WireOps == {"run", "export_relations", "import_relations", "backup", "import_from_backup"}

RelationOps ==
    {"export_relations", "import_relations", "backup", "restore", "import_from_backup"}

\* C1: restore on a remote-mode Client fails with the error 'Remote databases
\* cannot be restored remotely', whatever the path, and makes no HTTP request
\* and no native call.
C1_RemoteRestoreUnsupported ==
    (IsRemote /\ last.op = "restore") =>
        /\ last.outcome = Raise("RuntimeError", "Remote databases cannot be restored remotely")
        /\ last.ncalls = 0

\* C2: on an embedded-mode Client the native close entry point is invoked
\* exactly once however many times close() is called: never more than once in
\* total, once as soon as a close() has run, and no close() fails.
C2_CloseReleasesOnce ==
    IsEmbedded =>
        /\ CountCalls(calls, "native", "close") <= 1
        /\ (last.op = "close" =>
                /\ CountCalls(calls, "native", "close") = 1
                /\ last.outcome.kind = "return")

\* C3: close() on a remote-mode Client returns normally, makes no call to a
\* collaborator and leaves the fields as the constructor set them.
C3_RemoteCloseNoOp ==
    (IsRemote /\ last.op = "close") =>
        /\ last.outcome = Return(NoneValue)
        /\ last.ncalls = 0
        /\ host = ctor.options.host
        /\ auth = ctor.options.auth
        /\ pandas = InitPandas(ctor.dataframe, ctor.pandasInstalled)

\* C4: a constructed Client is in exactly one mode, the one its engine argument
\* selected, after any sequence of operations: an embedded handle and no
\* host/auth, or host and auth and a None embedded handle.
C4_ExactlyOneMode ==
    phase = "live" =>
        IF ctor.engine = "http"
        THEN embedded = None /\ host \in Hosts /\ auth \in Auths
        ELSE embedded = Handle /\ host = Unset /\ auth = Unset

\* C5: in either mode, run on a response with ok=false raises a QueryException
\* that carries the whole response, whose str is the message and whose repr is
\* the display text when there is one; run returns only when ok=true.
C5_RunFailureRaisesQueryError ==
    (phase = "live" /\ last.op = "run") =>
        /\ ~last.resp.ok =>
              /\ last.outcome = Raise("QueryException", last.resp)
              /\ QueryExceptionStr(last.outcome.val[2]) = last.resp.message
              /\ (last.resp.display # Absent =>
                      QueryExceptionRepr(last.outcome.val[2]) = last.resp.display)
        /\ last.outcome.kind = "return" => last.resp.ok

\* C6: the outcome of run depends on the response and the dataframe setting
\* only, not on the mode: a remote-mode Client ends a run exactly as an
\* embedded-mode Client given the same response does (same normalized result
\* when ok=true, same QueryException when ok=false).
C6_RunSameInBothModes ==
    (phase = "live" /\ last.op = "run") =>
        last.outcome =
            (IF ~last.resp.ok THEN Raise("QueryException", last.resp)
             ELSE IF pandas = PandasModule
             THEN Return(<<"DataFrame", last.resp.headers, last.resp.rows>>)
             ELSE Return(<<"dict", last.resp>>))

\* C7: constructing with engine 'http' succeeds when the options hold both
\* 'host' and 'auth' (storing both, creating no native handle), and fails when
\* the options are absent or lack one of them.
C7_HttpConstruction ==
    (phase # "new" /\ ctor.engine = "http") =>
        IF HasHostAndAuth(ctor.options)
        THEN /\ phase = "live"
             /\ host = ctor.options.host
             /\ auth = ctor.options.auth
             /\ embedded # Handle
             /\ CountCalls(calls, "native", "CozoDbPy") = 0
        ELSE /\ phase = "failed"
             /\ ctor.outcome.kind = "raise"

\* C8: export_relations, import_relations, backup, restore and
\* import_from_backup (remote restore excepted) make exactly one collaborator
\* call per invocation, raise an error carrying the message when ok=false, and
\* raise nothing when ok=true (export_relations returning the data, the others
\* nothing).
C8_OneCallAndRaiseOnFailure ==
    (phase = "live" /\ last.op \in RelationOps /\ ~(IsRemote /\ last.op = "restore")) =>
        /\ last.ncalls = 1
        /\ last.outcome =
              (IF ~last.resp.ok THEN Raise("RuntimeError", last.resp.message)
               ELSE IF last.op = "export_relations" THEN Return(<<"data", last.resp.data>>)
               ELSE Return(NoneValue))

\* C9: every wire operation of a remote-mode Client sends one request with the
\* contract's method and path and the x-cozo-auth header set to the
\* construction-time token; a remote-mode Client makes no native call and an
\* embedded-mode Client makes no HTTP request.
C9_WireContract ==
    /\ (IsRemote /\ last.op \in WireOps) =>
          /\ last.ncalls = 1
          /\ Len(calls) > 0
          /\ LET c == calls[Len(calls)]
             IN /\ c.via = "http"
                /\ c.op = WireMethod(last.op)
                /\ Len(c.target) >= 2
                /\ c.target[1] = ctor.options.host
                /\ c.target[2] = WirePath(last.op)
                /\ c.auth = ctor.options.auth
    /\ IsRemote => \A i \in 1..Len(calls) : calls[i].via = "http"
    /\ IsEmbedded => \A i \in 1..Len(calls) : calls[i].via = "native"

\* C10: a missing dataframe library never makes construction fail (the Client
\* is built exactly when its engine part succeeds, with the capability absent);
\* the capability a live Client holds is the one decided at construction, after
\* any operations; a successful run returns the raw response when the
\* capability is absent and a DataFrame of its headers and rows when present.
C10_DataframeCapability ==
    /\ (phase # "new" /\ ctor.dataframe /\ ~ctor.pandasInstalled) =>
          /\ phase = "live" <=>
                IF ctor.engine = "http"
                THEN ctor.options.kind = "object" /\ HasHostAndAuth(ctor.options)
                ELSE ctor.options.kind # "object" /\ ctor.nativeOk
          /\ phase = "live" => pandas = None /\ warned
    /\ phase = "live" =>
          pandas = (IF ctor.dataframe /\ ctor.pandasInstalled THEN PandasModule ELSE None)
    /\ (phase = "live" /\ last.op = "run" /\ last.outcome.kind = "return") =>
          last.outcome.val =
              (IF pandas = None THEN <<"dict", last.resp>>
               ELSE <<"DataFrame", last.resp.headers, last.resp.rows>>)

\* C10 witness: dataframe output was requested without the library, the Client
\* was built, an operation ran, and a later run returned the raw response.
C10_Witness ==
    /\ phase = "live"
    /\ ctor.dataframe /\ ~ctor.pandasInstalled
    /\ pandas = None
    /\ nops = 2
    /\ last.op = "run"
    /\ last.outcome = Return(<<"dict", last.resp>>)

====
